---------------------------- MODULE Spec2Model ----------------------------
(***************************************************************************)
(* A model of tools/build_ota_manifest.py: the OTA manifest builder.       *)
(*                                                                         *)
(* Strings are sequences of one-character strings, so that split, strip,   *)
(* int, lower, rstrip and string comparison are computed character by      *)
(* character as Python computes them.  A path is a sequence of components  *)
(* (each a string); str(path) and as_posix() join them with "/".           *)
(* The file system is the application directory (read only for a build),   *)
(* the manifest file and the releases root (one snapshot directory per     *)
(* name).  A build is a process whose steps are the file-system calls of   *)
(* main(), in program order.                                               *)
(***************************************************************************)
EXTENDS Integers, Sequences, FiniteSets, TLC

(***************************************************************************)
(* Characters and strings                                                  *)
(***************************************************************************)

\* The characters the model uses, in code-point order (Python compares
\* strings by code point).
AsciiOrder ==
    << " ", "-", ".", "/", "0", "1", "2", "3", "4", "5", "6", "7", "8", "9",
       "A", "B", "D", "S", "T", "X", "_",
       "a", "b", "c", "d", "e", "g", "h", "i", "k", "m", "n", "o", "p", "r",
       "s", "t", "u", "v", "x" >>

Ord(c) == CHOOSE i \in 1..Len(AsciiOrder) : AsciiOrder[i] = c

Digits == << "0", "1", "2", "3", "4", "5", "6", "7", "8", "9" >>

IsDigit(c) == \E i \in 1..10 : Digits[i] = c

DigitVal(c) == (CHOOSE i \in 1..10 : Digits[i] = c) - 1

\* str.lower() on one character.
LowerChar(c) ==
    CASE c = "A" -> "a" [] c = "B" -> "b" [] c = "D" -> "d" [] c = "S" -> "s"
      [] c = "T" -> "t" [] c = "X" -> "x" [] OTHER -> c

Lower(s) == [i \in 1..Len(s) |-> LowerChar(s[i])]

\* Python's s < t on strings: lexicographic by code point, a proper prefix first.
RECURSIVE StrLess(_, _)
StrLess(s, t) ==
    IF t = << >> THEN FALSE
    ELSE IF s = << >> THEN TRUE
    ELSE IF s[1] = t[1] THEN StrLess(Tail(s), Tail(t))
    ELSE Ord(s[1]) < Ord(t[1])

\* str.strip(): leading and trailing whitespace removed.
RECURSIVE LStrip(_)
LStrip(s) == IF s # << >> /\ s[1] = " " THEN LStrip(Tail(s)) ELSE s

RECURSIVE RStripChar(_, _)
RStripChar(s, c) ==
    IF s # << >> /\ s[Len(s)] = c THEN RStripChar(SubSeq(s, 1, Len(s) - 1), c) ELSE s

Strip(s) == RStripChar(LStrip(s), " ")

\* str.split(sep) for a one-character separator: always at least one part.
RECURSIVE SplitFrom(_, _, _)
SplitFrom(s, sep, cur) ==
    IF s = << >> THEN << cur >>
    ELSE IF s[1] = sep THEN << cur >> \o SplitFrom(Tail(s), sep, << >>)
    ELSE SplitFrom(Tail(s), sep, Append(cur, s[1]))

Split(s, sep) == SplitFrom(s, sep, << >>)

\* sep.join(parts)
RECURSIVE Join(_, _)
Join(parts, sep) ==
    IF parts = << >> THEN << >>
    ELSE IF Len(parts) = 1 THEN parts[1]
    ELSE parts[1] \o << sep >> \o Join(Tail(parts), sep)

\* The value of a non-empty digit string.
RECURSIVE DigitsVal(_, _)
DigitsVal(s, acc) ==
    IF s = << >> THEN acc ELSE DigitsVal(Tail(s), acc * 10 + DigitVal(s[1]))

AllDigits(s) == s # << >> /\ \A i \in 1..Len(s) : IsDigit(s[i])

\* int(s): surrounding whitespace is ignored, one leading "-" is a sign, the
\* rest must be decimal digits; anything else raises ValueError (ok = FALSE).
ParseInt(s) ==
    LET t == Strip(s)
        neg == t # << >> /\ t[1] = "-"
        d == IF neg THEN Tail(t) ELSE t
    IN  IF AllDigits(d)
        THEN [ok |-> TRUE, val |-> IF neg THEN 0 - DigitsVal(d, 0) ELSE DigitsVal(d, 0)]
        ELSE [ok |-> FALSE, val |-> 0]

\* str(n) for an integer.
RECURSIVE NatToStr(_)
NatToStr(n) ==
    IF n < 10 THEN << Digits[n + 1] >>
    ELSE Append(NatToStr(n \div 10), Digits[(n % 10) + 1])

IntToStr(n) == IF n < 0 THEN << "-" >> \o NatToStr(0 - n) ELSE NatToStr(n)


(***************************************************************************)
(* String constants of the program and of the inputs                       *)
(***************************************************************************)

\* "0", the padding component of bump_patch.
StrZero == << "0" >>

\* "0.0.1", the default version of main.
DefaultVersion == << "0", ".", "0", ".", "1" >>

\* The names in DEFAULT_EXCLUDES.
DS_Store == << ".", "D", "S", "_", "S", "t", "o", "r", "e" >>

Thumbs_db == << "T", "h", "u", "m", "b", "s", ".", "d", "b" >>

DEFAULT_EXCLUDES == { DS_Store, Thumbs_db }

\* --app-dir and --releases-root at their defaults.
AppDirName == << "a", "p", "p" >>

ReleasesRootName == << "r", "e", "l", "e", "a", "s", "e", "s" >>

\* "https://raw.githubusercontent.com/u/r/main/": the host with --user u,
\* --repo r and --branch main.
RawPrefix == << "h", "t", "t", "p", "s", ":", "/", "/", "r", "a", "w", ".", "g", "i", "t", "h", "u", "b", "u", "s", "e", "r", "c", "o", "n", "t", "e", "n", "t", ".", "c", "o", "m", "/", "u", "/", "r", "/", "m", "a", "i", "n", "/" >>

\* File and directory names of the application trees.
N_a_txt == << "a", ".", "t", "x", "t" >>

N_A_TXT == << "A", ".", "T", "X", "T" >>

N_B_TXT == << "B", ".", "T", "X", "T" >>

N_sub == << "s", "u", "b" >>

N_b_bin == << "b", ".", "b", "i", "n" >>

N_dot_env == << ".", "e", "n", "v" >>

N_dot_git == << ".", "g", "i", "t" >>

N_head == << "h", "e", "a", "d" >>

N_skip_me == << "s", "k", "i", "p", ".", "m", "e" >>

N_dead == << "d", "e", "a", "d" >>

\* Version strings given as --version or found in a prior manifest.
V_1_2 == << "1", ".", "2" >>

V_1_x_0 == << "1", ".", "x", ".", "0" >>

V_1_2_3 == << "1", ".", "2", ".", "3" >>

V_1_2_3_4 == << "1", ".", "2", ".", "3", ".", "4" >>

V_1_2_9 == << "1", ".", "2", ".", "9" >>

V_pad_1_2_3 == << " ", "1", ".", "2", ".", "3", " " >>

V_abc == << "a", "b", "c" >>

V_neg == << "-", "1", ".", "2", ".", "3" >>

V_0_0_1_slash == << "0", ".", "0", ".", "1", "/" >>

V_blank == << " ", " " >>

(***************************************************************************)
(* Values                                                                  *)
(***************************************************************************)

\* Python's None (no --version; no usable prior version): a value that is no
\* string, since its one element is not a character.
None == << "None" >>

\* The "version" member of a manifest document: the key is missing, or its
\* value is not a string (a number), or it is a string.
NoField == [t |-> "none"]

NumField(n) == [t |-> "num", v |-> n]

StrField(s) == [t |-> "str", v |-> s]

\* The manifest file: absent; text that json.loads rejects; a JSON document
\* that is not an object; or an object {"version": ..., "files": [...]}.
\* json.dumps followed by json.loads returns the same strings and lists, so a
\* document is kept as its value.
AbsentFile == [kind |-> "absent", version |-> NoField, files |-> << >>]

GarbageFile == [kind |-> "text", version |-> NoField, files |-> << >>]

ListFile == [kind |-> "list", version |-> NoField, files |-> << >>]

DictFile(v, fs) == [kind |-> "dict", version |-> v, files |-> fs]

\* File contents are byte strings named by small integers.  The digest is an
\* injective tag of the content, carried through unchanged: the model keeps
\* that equal bytes give equal digests and assumes no collision.
sha256_file(content) == << "sha256", content >>

\* An entry of the application tree that is not a directory: a regular file
\* with its content, or a dangling symbolic link (is_dir() is False for it and
\* opening it raises FileNotFoundError).
RegularFile(c) == [kind |-> "file", content |-> c]

DanglingLink == [kind |-> "dangling", content |-> 0]

(***************************************************************************)
(* Version resolution                                                      *)
(***************************************************************************)

\* The while loop of bump_patch: pad with "0" up to three parts.
RECURSIVE PadParts(_)
PadParts(parts) == IF Len(parts) < 3 THEN PadParts(Append(parts, StrZero)) ELSE parts

\* A variant of bump_patch that writes the patch back without adding 1.
bump_patch_same_patch(version) ==
    LET parts == PadParts(Split(Strip(version), "."))
        major == ParseInt(parts[1])
        minor == ParseInt(parts[2])
        patch == ParseInt(parts[3])
    IN  IF major.ok /\ minor.ok /\ patch.ok
        THEN [ok |-> TRUE,
              val |-> IntToStr(major.val) \o << "." >> \o IntToStr(minor.val)
                      \o << "." >> \o IntToStr(patch.val)]
        ELSE [ok |-> FALSE, val |-> << >>]

\* bump_patch: ok = FALSE stands for the ValueError it raises.
bump_patch(version) ==
    LET parts == PadParts(Split(Strip(version), "."))
        major == ParseInt(parts[1])
        minor == ParseInt(parts[2])
        patch == ParseInt(parts[3])
    IN  IF major.ok /\ minor.ok /\ patch.ok
        THEN [ok |-> TRUE,
              val |-> IntToStr(major.val) \o << "." >> \o IntToStr(minor.val)
                      \o << "." >> \o IntToStr(patch.val + 1)]
        ELSE [ok |-> FALSE, val |-> << >>]

\* load_existing_version: None unless the file holds a JSON object whose
\* "version" is a string that is not blank; every exception is swallowed.
load_existing_version(mf) ==
    IF mf.kind = "absent" THEN None
    ELSE IF mf.kind # "dict" THEN None
    ELSE IF mf.version.t = "str" /\ Strip(mf.version.v) # << >>
         THEN Strip(mf.version.v)
    ELSE None

\* Python truthiness of an optional string: None and "" are false.
Truthy(s) == s # None /\ s # << >>

\* A variant of ResolveVersion that validates and normalises an explicit
\* version the way bump_patch reads one (three integers, padded, truncated).
ResolveVersionNormalising(argVersion, mf) ==
    IF Truthy(argVersion)
    THEN LET parts == PadParts(Split(Strip(argVersion), "."))
             a == ParseInt(parts[1])
             b == ParseInt(parts[2])
             c == ParseInt(parts[3])
         IN  IF a.ok /\ b.ok /\ c.ok
             THEN [raised |-> "none", existing |-> None,
                   version |-> IntToStr(a.val) \o << "." >> \o IntToStr(b.val)
                               \o << "." >> \o IntToStr(c.val)]
             ELSE [raised |-> "ValueError", existing |-> None, version |-> None]
    ELSE LET existing == load_existing_version(mf)
         IN  IF Truthy(existing)
             THEN IF bump_patch(existing).ok
                  THEN [raised |-> "none", existing |-> existing,
                        version |-> bump_patch(existing).val]
                  ELSE [raised |-> "ValueError", existing |-> existing,
                        version |-> None]
             ELSE [raised |-> "none", existing |-> existing,
                   version |-> DefaultVersion]

\* "Determine version" in main: the explicit version as given; else the prior
\* manifest's version bumped; else "0.0.1".  raised names the exception that
\* leaves main, if any.
ResolveVersion(argVersion, mf) ==
    IF Truthy(argVersion)
    THEN [raised |-> "none", existing |-> None, version |-> argVersion]
    ELSE LET existing == load_existing_version(mf)
         IN  IF Truthy(existing)
             THEN IF bump_patch(existing).ok
                  THEN [raised |-> "none", existing |-> existing,
                        version |-> bump_patch(existing).val]
                  ELSE [raised |-> "ValueError", existing |-> existing,
                        version |-> None]
             ELSE [raised |-> "none", existing |-> existing,
                   version |-> DefaultVersion]

(***************************************************************************)
(* File collection                                                         *)
(***************************************************************************)

\* str(path): the components joined with "/".
PathStr(path) == Join(path, "/")

\* Path.name: the last component.
PathName(path) == path[Len(path)]

\* path.relative_to(app_dir): the path without the leading app_dir.
RelativeTo(path) == Tail(path)

StartsWithDot(name) == name # << >> /\ name[1] = "."

\* The sort key of collect_files: str(x).lower().
SortKey(path) == Lower(PathStr(path))

\* list.sort is stable: an element goes after every element whose key is not
\* greater than its own.
RECURSIVE InsertStable(_, _)
InsertStable(sorted, x) ==
    IF sorted = << >> THEN << x >>
    ELSE IF StrLess(SortKey(x), SortKey(sorted[1])) THEN << x >> \o sorted
    ELSE << sorted[1] >> \o InsertStable(Tail(sorted), x)

RECURSIVE SortStable(_)
SortStable(xs) ==
    IF xs = << >> THEN << >>
    ELSE InsertStable(SortStable(SubSeq(xs, 1, Len(xs) - 1)), xs[Len(xs)])

\* A filter that also skips whatever lies inside a directory whose name
\* begins with "." (as a shell glob would).
EligibleNoHiddenDirs(path, excludes) ==
    /\ PathName(path) \notin excludes
    /\ \A i \in 1..Len(path) : ~StartsWithDot(path[i])

\* The filter of the rglob loop on one entry that is not a directory.
Eligible(path, excludes) ==
    /\ PathName(path) \notin excludes
    /\ ~StartsWithDot(PathName(path))

\* The rglob loop: the entries in the order the file system enumerates them
\* (enum, directories left out as the loop skips them), filtered.
RECURSIVE FilterSeq(_, _)
FilterSeq(enum, excludes) ==
    IF enum = << >> THEN << >>
    ELSE IF Eligible(enum[1], excludes)
         THEN << enum[1] >> \o FilterSeq(Tail(enum), excludes)
         ELSE FilterSeq(Tail(enum), excludes)

\* collect_files: FileNotFoundError unless the root is a directory; else the
\* filtered entries, sorted.
collect_files(rootKind, enum, excludes) ==
    IF rootKind # "dir"
    THEN [raised |-> "FileNotFoundError", files |-> << >>]
    ELSE [raised |-> "none", files |-> SortStable(FilterSeq(enum, excludes))]

\* The sequences that list every element of S exactly once.
Perms(S) ==
    { f \in [1..Cardinality(S) -> S] : \A i, j \in 1..Cardinality(S) : f[i] = f[j] => i = j }

(***************************************************************************)
(* Manifest entries                                                        *)
(***************************************************************************)

\* release_dir = releases_root / version.  pathlib drops trailing slashes of
\* the joined part; the versions of this model hold no other "/" and are
\* neither "." nor "..", so the directory is named by the rest.
ReleaseDir(version) == RStripChar(version, "/")

\* url_base in main: the host, releases_root.as_posix(), "/", version.
UrlBase(version) == RawPrefix \o ReleasesRootName \o << "/" >> \o version

\* An entry whose url keeps the base's trailing slashes.
ManifestEntryNoRstrip(path, tree, url_base) ==
    LET rel == Join(RelativeTo(path), "/")
    IN  [path |-> rel,
         url |-> url_base \o << "/" >> \o rel,
         sha256 |-> sha256_file(tree[RelativeTo(path)].content)]

\* One entry of build_manifest_entries.
ManifestEntry(path, tree, url_base) ==
    LET rel == Join(RelativeTo(path), "/")
    IN  [path |-> rel,
         url |-> RStripChar(url_base, "/") \o << "/" >> \o rel,
         sha256 |-> sha256_file(tree[RelativeTo(path)].content)]

\* build_manifest_entries: one entry per file, in the order given;
\* FileNotFoundError when a file cannot be opened for hashing.
RECURSIVE EntriesOf(_, _, _)
EntriesOf(files, tree, url_base) ==
    IF files = << >> THEN << >>
    ELSE << ManifestEntry(files[1], tree, url_base) >>
         \o EntriesOf(Tail(files), tree, url_base)

build_manifest_entries(files, tree, url_base) ==
    IF \E i \in 1..Len(files) : tree[RelativeTo(files[i])].kind # "file"
    THEN [raised |-> "FileNotFoundError", entries |-> << >>]
    ELSE [raised |-> "none", entries |-> EntriesOf(files, tree, url_base)]

(***************************************************************************)
(* State                                                                   *)
(***************************************************************************)

\* Builds started in one behaviour.
MaxBuilds == 3

\* The build processes (invocations of main that may be alive at once).
Procs == {1, 2}

VARIABLES
    app,        \* the application root: [kind, tree]; tree maps each relative
                \* path of an entry that is not a directory to the entry
    manifest,   \* the manifest file
    releases,   \* the releases root: directory name -> (relative path -> content).
                \* Subdirectories of a snapshot are implicit in the paths of its
                \* files; builds that run at once are given flat trees only.
    pc,         \* per build: the statement of main it is at
    argv,       \* per build: [version, no_copy, exclude]
    existing,   \* per build: main's variable existing
    version,    \* per build: main's variable version
    files,      \* per build: main's variable files
    listing,    \* per build: the entries rmtree listed and has yet to unlink
    todo,       \* per build: the files copy_release_files has yet to copy
    entries,    \* per build: main's variable entries
    result,     \* per build: how main ended: [state, code, raised, at]
    pre,        \* per build: the application root, manifest and releases root
                \* when it started
    builds,     \* builds started so far
    overlapped  \* whether a build ever started while another was running

vars == << app, manifest, releases, pc, argv, existing, version, files, listing,
           todo, entries, result, pre, builds, overlapped >>

locals == << argv, existing, version, files, entries >>

Running == [state |-> "running", code |-> 0, raised |-> "none", at |-> "none"]

\* main returned code (0: success, 2: nothing to package).
Returned(code, at) == [state |-> "exit", code |-> code, raised |-> "none", at |-> at]

\* An exception left main: the interpreter exits with code 1.
Raised(exc, at) == [state |-> "exit", code |-> 1, raised |-> exc, at |-> at]

Idle(p) == pc[p] \in {"idle", "done"}

EmptyDir == [x \in {} |-> 0]

Dir(p) == ReleaseDir(version[p])

DirExists(p) == Dir(p) \in DOMAIN releases

\* The releases root with directory d holding snap.
WithDir(d, snap) ==
    [x \in DOMAIN releases \cup {d} |-> IF x = d THEN snap ELSE releases[x]]

\* The releases root without directory d.
WithoutDir(d) == [x \in DOMAIN releases \ {d} |-> releases[x]]

\* A directory with file rel holding content c.
WithFile(snap, rel, c) ==
    [x \in DOMAIN snap \cup {rel} |-> IF x = rel THEN c ELSE snap[x]]

WithoutFile(snap, rel) == [x \in DOMAIN snap \ {rel} |-> snap[x]]

Finish(p, res) ==
    /\ pc' = [pc EXCEPT ![p] = "done"]
    /\ result' = [result EXCEPT ![p] = res]

Goto(p, label) ==
    /\ pc' = [pc EXCEPT ![p] = label]
    /\ UNCHANGED result

(***************************************************************************)
(* The steps of main                                                       *)
(***************************************************************************)

\* main is invoked: arguments parsed, version determined (one read of the
\* manifest file).
StartBuild(p, v, nc, ex) ==
    /\ Idle(p)
    /\ builds < MaxBuilds
    /\ builds' = builds + 1
    /\ overlapped' = (overlapped \/ \E q \in Procs \ {p} : ~Idle(q))
    /\ pre' = [pre EXCEPT ![p] = [app |-> app, manifest |-> manifest, releases |-> releases]]
    /\ argv' = [argv EXCEPT ![p] = [version |-> v, no_copy |-> nc, exclude |-> ex]]
    /\ LET r == ResolveVersion(v, manifest)
       IN  /\ existing' = [existing EXCEPT ![p] = r.existing]
           /\ version' = [version EXCEPT ![p] = r.version]
           /\ IF r.raised # "none"
              THEN Finish(p, Raised(r.raised, "version"))
              ELSE /\ pc' = [pc EXCEPT ![p] = "collect"]
                   /\ result' = [result EXCEPT ![p] = Running]
    /\ files' = [files EXCEPT ![p] = << >>]
    /\ entries' = [entries EXCEPT ![p] = << >>]
    /\ listing' = [listing EXCEPT ![p] = {}]
    /\ todo' = [todo EXCEPT ![p] = << >>]
    /\ UNCHANGED << app, manifest, releases >>

\* A variant of Collect in which the snapshot directory is removed before
\* the collected files are tested.
CollectStagingFirst(p, enum) ==
    /\ pc[p] = "collect"
    /\ LET full == [i \in 1..Len(enum) |-> << AppDirName >> \o enum[i]]
           r == collect_files(app.kind, full, DEFAULT_EXCLUDES \cup argv[p].exclude)
       IN  /\ files' = [files EXCEPT ![p] = r.files]
           /\ IF r.raised # "none" THEN Finish(p, Raised(r.raised, "collect"))
              ELSE IF r.files = << >> THEN Finish(p, Returned(2, "collect"))
              ELSE IF argv[p].no_copy THEN Goto(p, "entries")
              ELSE Goto(p, "exists")
    /\ releases' = IF ~argv[p].no_copy /\ DirExists(p) THEN WithoutDir(Dir(p))
                   ELSE releases
    /\ UNCHANGED << app, manifest, argv, existing, version, listing,
                    todo, entries, pre, builds, overlapped >>

\* collect_files and the test for no files.  enum is the order in which rglob
\* yields the entries.
Collect(p, enum) ==
    /\ pc[p] = "collect"
    /\ LET full == [i \in 1..Len(enum) |-> << AppDirName >> \o enum[i]]
           r == collect_files(app.kind, full, DEFAULT_EXCLUDES \cup argv[p].exclude)
       IN  /\ files' = [files EXCEPT ![p] = r.files]
           /\ IF r.raised # "none" THEN Finish(p, Raised(r.raised, "collect"))
              ELSE IF r.files = << >> THEN Finish(p, Returned(2, "collect"))
              ELSE IF argv[p].no_copy THEN Goto(p, "entries")
              ELSE Goto(p, "exists")
    /\ UNCHANGED << app, manifest, releases, argv, existing, version, listing,
                    todo, entries, pre, builds, overlapped >>

\* A variant of Exists that never removes the directory (a merge).
ExistsNoRmtree(p) ==
    /\ pc[p] = "exists"
    /\ Goto(p, "mkdir")
    /\ UNCHANGED << app, manifest, releases, locals, listing, todo, pre, builds,
                    overlapped >>

\* copy_release_files: if release_dir.exists()
Exists(p) ==
    /\ pc[p] = "exists"
    /\ Goto(p, IF DirExists(p) THEN "scan" ELSE "mkdir")
    /\ UNCHANGED << app, manifest, releases, locals, listing, todo, pre, builds,
                    overlapped >>

\* shutil.rmtree, first step: the directory is listed.
Scan(p) ==
    /\ pc[p] = "scan"
    /\ IF ~DirExists(p)
       THEN /\ Finish(p, Raised("FileNotFoundError", "rmtree"))
            /\ UNCHANGED listing
       ELSE /\ listing' = [listing EXCEPT ![p] = DOMAIN releases[Dir(p)]]
            /\ Goto(p, IF DOMAIN releases[Dir(p)] = {} THEN "rmdir" ELSE "unlink")
    /\ UNCHANGED << app, manifest, releases, locals, todo, pre, builds, overlapped >>

\* shutil.rmtree: one listed entry is unlinked.
Unlink(p, rel) ==
    /\ pc[p] = "unlink"
    /\ rel \in listing[p]
    /\ IF ~DirExists(p) \/ rel \notin DOMAIN releases[Dir(p)]
       THEN /\ Finish(p, Raised("FileNotFoundError", "rmtree"))
            /\ UNCHANGED << releases, listing >>
       ELSE /\ releases' = WithDir(Dir(p), WithoutFile(releases[Dir(p)], rel))
            /\ listing' = [listing EXCEPT ![p] = @ \ {rel}]
            /\ Goto(p, IF listing[p] = {rel} THEN "rmdir" ELSE "unlink")
    /\ UNCHANGED << app, manifest, locals, todo, pre, builds, overlapped >>

\* shutil.rmtree, last step: the emptied directory is removed.
Rmdir(p) ==
    /\ pc[p] = "rmdir"
    /\ IF ~DirExists(p)
       THEN /\ Finish(p, Raised("FileNotFoundError", "rmtree"))
            /\ UNCHANGED releases
       ELSE IF DOMAIN releases[Dir(p)] # {}
       THEN /\ Finish(p, Raised("OSError", "rmtree"))
            /\ UNCHANGED releases
       ELSE /\ releases' = WithoutDir(Dir(p))
            /\ Goto(p, "mkdir")
    /\ UNCHANGED << app, manifest, locals, listing, todo, pre, builds, overlapped >>

\* release_dir.mkdir(parents=True, exist_ok=True), and the copy loop begins.
Mkdir(p) ==
    /\ pc[p] = "mkdir"
    /\ releases' = IF DirExists(p) THEN releases ELSE WithDir(Dir(p), EmptyDir)
    /\ todo' = [todo EXCEPT ![p] = files[p]]
    /\ Goto(p, "mkparent")
    /\ UNCHANGED << app, manifest, locals, listing, pre, builds, overlapped >>

\* dest.parent.mkdir(parents=True, exist_ok=True)
MkParent(p) ==
    /\ pc[p] = "mkparent"
    /\ releases' = IF DirExists(p) THEN releases ELSE WithDir(Dir(p), EmptyDir)
    /\ Goto(p, "copy")
    /\ UNCHANGED << app, manifest, locals, listing, todo, pre, builds, overlapped >>

\* A variant of Copy that writes no file.
CopyNothing(p) ==
    /\ pc[p] = "copy"
    /\ todo' = [todo EXCEPT ![p] = Tail(@)]
    /\ Goto(p, IF Len(todo[p]) = 1 THEN "entries" ELSE "mkparent")
    /\ UNCHANGED << app, manifest, releases, locals, listing, pre, builds, overlapped >>

\* shutil.copy2(f, dest): the open of the source or of the destination fails
\* with FileNotFoundError (a dangling link; a parent directory removed
\* meanwhile); else the file appears with the source's content.
Copy(p) ==
    /\ pc[p] = "copy"
    /\ LET rel == RelativeTo(todo[p][1])
       IN  IF app.tree[rel].kind # "file" \/ ~DirExists(p)
           THEN /\ Finish(p, Raised("FileNotFoundError", "copy"))
                /\ UNCHANGED << releases, todo >>
           ELSE /\ releases' = WithDir(Dir(p),
                                       WithFile(releases[Dir(p)], rel, app.tree[rel].content))
                /\ todo' = [todo EXCEPT ![p] = Tail(@)]
                /\ Goto(p, IF Len(todo[p]) = 1 THEN "entries" ELSE "mkparent")
    /\ UNCHANGED << app, manifest, locals, listing, pre, builds, overlapped >>

\* url_base and build_manifest_entries
BuildEntries(p) ==
    /\ pc[p] = "entries"
    /\ LET r == build_manifest_entries(files[p], app.tree, UrlBase(version[p]))
       IN  /\ entries' = [entries EXCEPT ![p] = r.entries]
           /\ IF r.raised # "none" THEN Finish(p, Raised(r.raised, "entries"))
              ELSE Goto(p, "write")
    /\ UNCHANGED << app, manifest, releases, argv, existing, version, files,
                    listing, todo, pre, builds, overlapped >>

\* write_manifest (the file is replaced in place), the summary, return 0
WriteManifest(p) ==
    /\ pc[p] = "write"
    /\ manifest' = DictFile(StrField(version[p]), entries[p])
    /\ Finish(p, Returned(0, "write"))
    /\ UNCHANGED << app, releases, locals, listing, todo, pre, builds, overlapped >>

\* The steps of a build after its start.
Step(p) ==
    \/ \E enum \in Perms(DOMAIN app.tree) : Collect(p, enum)
    \/ Exists(p)
    \/ Scan(p)
    \/ \E rel \in listing[p] : Unlink(p, rel)
    \/ Rmdir(p)
    \/ Mkdir(p)
    \/ MkParent(p)
    \/ Copy(p)
    \/ BuildEntries(p)
    \/ WriteManifest(p)

(***************************************************************************)
(* Inputs                                                                  *)
(***************************************************************************)

Tree(paths, c) == [x \in paths |-> RegularFile(c)]

AppDir(tree) == [kind |-> "dir", tree |-> tree]

\* No application root at all.
AppMissing == [kind |-> "missing", tree |-> EmptyDir]

\* The application root path names a regular file.
AppIsFile == [kind |-> "file", tree |-> EmptyDir]

\* A root that holds only a hidden file.
AppOnlyHidden == AppDir(Tree({<< N_dot_env >>}, 1))

AppTwo == AppDir(Tree({<< N_a_txt >>, << N_sub, N_b_bin >>}, 1))

AppOne == AppDir(Tree({<< N_a_txt >>}, 2))

\* A root with a regular file and a dangling symbolic link.
AppBroken ==
    AppDir([x \in {<< N_a_txt >>, << N_dead >>} |->
               IF x = << N_dead >> THEN DanglingLink ELSE RegularFile(1)])

SeqApps == { AppMissing, AppIsFile, AppOnlyHidden, AppTwo, AppOne, AppBroken }

\* --version in the sequential builds: absent, plain, and with a trailing "/".
SeqVersions == { None, V_1_2, V_0_0_1_slash }

\* --version in the version-resolution builds.
VersionArgs ==
    { None, << >>, V_1_2, V_1_x_0, V_1_2_3, V_1_2_3_4, V_neg, V_pad_1_2_3, V_abc }

\* What the manifest path may hold before the first build.
PriorManifests ==
    { AbsentFile, GarbageFile, ListFile,
      DictFile(NoField, << >>), DictFile(NumField(3), << >>),
      DictFile(StrField(V_blank), << >>), DictFile(StrField(V_abc), << >>),
      DictFile(StrField(V_1_x_0), << >>), DictFile(StrField(V_1_2_9), << >>),
      DictFile(StrField(V_pad_1_2_3), << >>), DictFile(StrField(V_1_2_3_4), << >>) }

\* Largest application tree of the collection runs.
MaxTree == 3

\* The entries the collection runs draw their trees from.
CollectPaths ==
    { << N_a_txt >>, << N_A_TXT >>, << N_B_TXT >>, << N_sub, N_b_bin >>,
      << DS_Store >>, << N_sub, Thumbs_db >>, << N_sub, N_dot_env >>,
      << N_dot_git, N_head >>, << N_skip_me >> }

CollectApps ==
    { AppDir(Tree(S, 1)) : S \in { T \in SUBSET CollectPaths : Cardinality(T) <= MaxTree } }

\* --exclude
ExcludeLists == { {}, { N_skip_me } }

\* The flat trees of the concurrent builds.
ConcApps == { AppDir(Tree({<< N_a_txt >>, << N_B_TXT >>}, 1)) }

(***************************************************************************)
(* Specifications                                                          *)
(***************************************************************************)

InitWith(apps, manifests) ==
    /\ app \in apps
    /\ manifest \in manifests
    /\ releases = EmptyDir
    /\ pc = [p \in Procs |-> "idle"]
    /\ argv = [p \in Procs |-> [version |-> None, no_copy |-> FALSE, exclude |-> {}]]
    /\ existing = [p \in Procs |-> None]
    /\ version = [p \in Procs |-> None]
    /\ files = [p \in Procs |-> << >>]
    /\ listing = [p \in Procs |-> {}]
    /\ todo = [p \in Procs |-> << >>]
    /\ entries = [p \in Procs |-> << >>]
    /\ result = [p \in Procs |-> Running]
    /\ pre = [p \in Procs |-> [app |-> app, manifest |-> manifest, releases |-> EmptyDir]]
    /\ builds = 0
    /\ overlapped = FALSE

\* Between builds the application directory is edited.
EditApp(apps) ==
    /\ \A p \in Procs : Idle(p)
    /\ app' \in apps \ {app}
    /\ UNCHANGED << manifest, releases, pc, argv, existing, version, files,
                    listing, todo, entries, result, pre, builds, overlapped >>

\* Builds run one at a time, staging enabled.
Init == InitWith(SeqApps, {AbsentFile})

Next ==
    \/ \E v \in SeqVersions : StartBuild(1, v, FALSE, {})
    \/ Step(1)
    \/ EditApp(SeqApps)

Spec == Init /\ [][Next]_vars

\* Version resolution: builds one at a time with --no-copy, over many
\* --version arguments and prior manifests.
InitVersions == InitWith({AppOne}, PriorManifests)

NextVersions ==
    \/ \E v \in VersionArgs : StartBuild(1, v, TRUE, {})
    \/ \E enum \in Perms(DOMAIN app.tree) : Collect(1, enum)
    \/ BuildEntries(1)
    \/ WriteManifest(1)

SpecVersions == InitVersions /\ [][NextVersions]_vars

\* File collection: a build up to the end of collect_files, over many trees,
\* enumeration orders and exclusion lists.
InitCollect == InitWith(CollectApps, {AbsentFile})

NextCollect ==
    \/ \E ex \in ExcludeLists : StartBuild(1, None, TRUE, ex)
    \/ \E enum \in Perms(DOMAIN app.tree) : Collect(1, enum)

SpecCollect == InitCollect /\ [][NextCollect]_vars

\* Two builds of the same version at once, staging enabled.
InitConc == InitWith(ConcApps, {AbsentFile})

NextConc ==
    \/ \E p \in Procs, ex \in { {}, { N_B_TXT } } : StartBuild(p, V_1_2, FALSE, ex)
    \/ \E p \in Procs : Step(p)

SpecConc == InitConc /\ [][NextConc]_vars

(***************************************************************************)
(* Properties                                                              *)
(***************************************************************************)

\* The elements of a sequence.
Range(seq) == { seq[i] : i \in 1..Len(seq) }

\* A version string read as the claim reads it: up to three dot-separated
\* parts, padded with "0", each a non-negative decimal integer.
PartsOf(s) == PadParts(Split(Strip(s), "."))

IsNatTriple(s) == \A i \in 1..3 : AllDigits(PartsOf(s)[i])

IsIntTriple(s) == \A i \in 1..3 : ParseInt(PartsOf(s)[i]).ok

TripleOf(s) == [i \in 1..3 |-> ParseInt(PartsOf(s)[i]).val]

FormatTriple(t) ==
    IntToStr(t[1]) \o << "." >> \o IntToStr(t[2]) \o << "." >> \o IntToStr(t[3])

\* Exactly three dot-separated runs of digits.
IsCanonical(s) ==
    /\ Len(Split(s, ".")) = 3
    /\ \A i \in 1..3 : AllDigits(Split(s, ".")[i])

Started(p) == pc[p] # "idle"

Succeeded(p) == pc[p] = "done" /\ result[p].code = 0 /\ result[p].raised = "none"

HasOverride(p) == Truthy(argv[p].version)

PriorParses(mf) ==
    /\ mf.kind = "dict"
    /\ mf.version.t = "str"
    /\ Strip(mf.version.v) # << >>
    /\ IsIntTriple(mf.version.v)

\* C2: without an explicit version, resolution never fails, whatever the
\* manifest path holds, and a prior version that does not parse resolves to
\* "0.0.1".
C2_NoOverrideNeverFails ==
    (Started(1) /\ ~HasOverride(1)) =>
        /\ result[1].raised # "ValueError"
        /\ ~PriorParses(pre[1].manifest) => version[1] = DefaultVersion

NothingEligible(tree, exclude) ==
    \A rel \in DOMAIN tree :
        \/ PathName(rel) \in {DS_Store, Thumbs_db} \cup exclude
        \/ StartsWithDot(PathName(rel))

\* C4: a build whose application root is missing or no directory ends with
\* the not-found error, one whose root yields no eligible file returns code 2,
\* and either way the manifest file and the releases root are as they were
\* when the build started.
C4_AbortWritesNothing ==
    (pc[1] = "done" /\ result[1].at # "version") =>
        /\ pre[1].app.kind # "dir" =>
              /\ result[1].raised = "FileNotFoundError"
              /\ result[1].at = "collect"
        /\ (pre[1].app.kind = "dir" /\ NothingEligible(pre[1].app.tree, argv[1].exclude)) =>
              /\ result[1] = Returned(2, "collect")
              /\ result[1].code # 0
        /\ result[1].at = "collect" =>
              /\ manifest = pre[1].manifest
              /\ releases = pre[1].releases

\* A build with staging enabled returned code 2 although a manifest and a
\* snapshot of the resolved version existed.
C4_Witness ==
    /\ pc[1] = "done"
    /\ result[1] = Returned(2, "collect")
    /\ ~argv[1].no_copy
    /\ manifest.kind = "dict"
    /\ DirExists(1)
    /\ DOMAIN releases[Dir(1)] # {}

Collected(p) == pc[p] \in {"exists", "entries"} \/ (pc[p] = "done" /\ result[p].at = "collect")

\* C5: the collected files hold no file named .DS_Store, Thumbs.db, a
\* configured excluded name or a name beginning with ".", at any depth, and
\* hold every other entry that is not a directory, those inside a directory
\* whose name begins with "." included; none twice.
C5_ExactlyTheEligibleFiles ==
    (Collected(1) /\ pre[1].app.kind = "dir") =>
        /\ Range(files[1]) =
              { << AppDirName >> \o rel : rel \in
                  { r \in DOMAIN pre[1].app.tree :
                      /\ PathName(r) \notin {DS_Store, Thumbs_db} \cup argv[1].exclude
                      /\ ~StartsWithDot(PathName(r)) } }
        /\ Cardinality(Range(files[1])) = Len(files[1])

\* A file inside .git was collected while a hidden file in a subdirectory and
\* a configured excluded name were left out.
C5_Witness ==
    /\ Collected(1)
    /\ << AppDirName, N_dot_git, N_head >> \in Range(files[1])
    /\ << N_sub, N_dot_env >> \in DOMAIN pre[1].app.tree
    /\ << N_skip_me >> \in DOMAIN pre[1].app.tree
    /\ argv[1].exclude = { N_skip_me }
    /\ Len(files[1]) = 1

\* C6: the collected sequence is the same for every order in which the file
\* system enumerates the entries, and is sorted by the lower-cased path string.
C6_OrderIndependentOfEnumeration ==
    (Collected(1) /\ pre[1].app.kind = "dir") =>
        /\ \A e \in Perms(DOMAIN pre[1].app.tree) :
              collect_files(pre[1].app.kind, [i \in 1..Len(e) |-> << AppDirName >> \o e[i]],
                            DEFAULT_EXCLUDES \cup argv[1].exclude).files = files[1]
        /\ \A i \in 1..(Len(files[1]) - 1) :
              ~StrLess(Lower(PathStr(files[1][i + 1])), Lower(PathStr(files[1][i])))

StagingDone(p) ==
    /\ ~argv[p].no_copy
    /\ \/ pc[p] \in {"entries", "write"}
       \/ pc[p] = "done" /\ result[p].at \in {"entries", "write"}

\* The snapshot a staging of build p's files must leave.
ExpectedSnapshot(p) ==
    [rel \in { RelativeTo(f) : f \in Range(files[p]) } |-> pre[p].app.tree[rel].content]

\* C7: once the staging step of a build has run, the snapshot directory of
\* its version holds exactly the collected files, at their relative paths and
\* with their content, and nothing else.
C7_SnapshotIsExactlyTheCollectedFiles ==
    StagingDone(1) =>
        /\ DirExists(1)
        /\ releases[Dir(1)] = ExpectedSnapshot(1)

\* Staging has run over a snapshot that held a file outside the collected set.
C7_Witness ==
    /\ StagingDone(1)
    /\ Dir(1) \in DOMAIN pre[1].releases
    /\ \E rel \in DOMAIN pre[1].releases[Dir(1)] :
          << AppDirName >> \o rel \notin Range(files[1])
    /\ releases[Dir(1)] = ExpectedSnapshot(1)

EntriesBuilt(p) == pc[p] = "write" \/ Succeeded(p)

\* C8: one manifest entry per collected file, in the order collected; the
\* path is the file's path relative to the application root with "/", the url
\* is the URL base without trailing slashes, "/", and the path, the sha256 is
\* the digest of the file's content; the paths are pairwise distinct.
C8_EntriesFollowFiles ==
    EntriesBuilt(1) =>
        /\ Len(entries[1]) = Len(files[1])
        /\ \A i \in 1..Len(files[1]) :
              LET rel == Tail(files[1][i])
              IN  /\ entries[1][i].path = Join(rel, "/")
                  /\ entries[1][i].url =
                        RStripChar(RawPrefix \o ReleasesRootName \o << "/" >> \o version[1], "/")
                        \o << "/" >> \o Join(rel, "/")
                  /\ entries[1][i].sha256 = sha256_file(pre[1].app.tree[rel].content)
        /\ \A i, j \in 1..Len(entries[1]) :
              entries[1][i].path = entries[1][j].path => i = j
        /\ Succeeded(1) => manifest.files = entries[1]

\* Entries were built for two files under a version that ends in "/".
C8_Witness ==
    /\ pc[1] = "write"
    /\ Len(entries[1]) = 2
    /\ version[1] = V_0_0_1_slash

\* The snapshot directory the manifest on disk points at (empty if missing).
ManifestSnapshot ==
    IF manifest.kind = "dict" /\ manifest.version.t = "str"
       /\ ReleaseDir(manifest.version.v) \in DOMAIN releases
    THEN releases[ReleaseDir(manifest.version.v)]
    ELSE EmptyDir

\* Whether the manifest lists a file its snapshot directory lacks.
ManifestListsMissingFile ==
    \E i \in 1..Len(manifest.files) :
        \A rel \in DOMAIN ManifestSnapshot : Join(rel, "/") # manifest.files[i].path

\* C9: two builds of the same version with staging enabled are not kept
\* apart: a build never fails inside the staging step, and two successful
\* builds never leave a manifest that lists a file the snapshot lacks, unless
\* the builds ran at the same time.
C9_DamageOnlyFromOverlap ==
    /\ (\A p \in Procs : Succeeded(p)) /\ ManifestListsMissingFile => overlapped
    /\ \A p \in Procs :
          (pc[p] = "done" /\ result[p].at \in {"rmtree", "copy"}) => overlapped

\* Both builds succeeded with staging enabled on the same version, and the
\* manifest lists a file that the snapshot directory lacks.
C9_Witness ==
    /\ \A p \in Procs : Succeeded(p) /\ ~argv[p].no_copy
    /\ version[1] = version[2]
    /\ manifest.version = StrField(version[1])
    /\ ManifestListsMissingFile

\* C10: whenever no build is running, the manifest on disk, if any, lists
\* exactly the files of the snapshot directory of its version, each with the
\* digest of the snapshot file.
C10_ManifestMatchesSnapshot ==
    ((\A p \in Procs : Idle(p)) /\ manifest.kind = "dict") =>
        /\ { manifest.files[i].path : i \in 1..Len(manifest.files) }
              = { Join(rel, "/") : rel \in DOMAIN ManifestSnapshot }
        /\ \A i \in 1..Len(manifest.files) :
              \A rel \in DOMAIN ManifestSnapshot :
                  Join(rel, "/") = manifest.files[i].path
                     => manifest.files[i].sha256 = sha256_file(ManifestSnapshot[rel])

=============================================================================
